---- MODULE Spec2Model ----
(***************************************************************************)
(* aezeedcheck: recovery of the node key and the first two segwit          *)
(* addresses from an aezeed cipher seed (src/main.go).                     *)
(*                                                                         *)
(* main is modelled as a sequential program (pc is its position), with     *)
(* deriveFirstKey / deriveAccountKey executed one Child call at a time in  *)
(* the call frame fr.  Hashes, HMAC tweaks and encodings are symbolic      *)
(* terms: a hash of x is the term "hash of x", so distinct inputs give     *)
(* distinct digests, and the (astronomically rare) invalid HMAC tweak is   *)
(* the fixed but unknown set badTweak.                                     *)
(***************************************************************************)
EXTENDS Integers, Sequences, FiniteSets, TLC

VARIABLES
    pc,                     \* position of main / of the driver
    mnemonicPhrase,         \* number of words of the -mnemonic flag
    cipherSeed,             \* result of ToCipherSeed
    out,                    \* lines written to standard output, in order
    fatal,                  \* the log.Fatalf that ended the run (msg "" if none)
    entropy,                \* the buffer handed to NewMaster
    rootKey,                \* the HD root key
    nodePub, firstP2wkhKey, firstSegwitAddr,
    firstNp2wkhKey, firstNestedSegwitAddr,
    fr,                     \* call frame of deriveFirstKey
    calls,                  \* every ExtendedKey.Child call made so far, in order
    hist,                   \* driver: the completed deriveFirstKey invocations
    badTweak                \* the <<seed, path>> whose HMAC tweak is invalid

vars == <<pc, mnemonicPhrase, cipherSeed, out, fatal, entropy, rootKey,
          nodePub, firstP2wkhKey, firstSegwitAddr, firstNp2wkhKey,
          firstNestedSegwitAddr, fr, calls, hist, badTweak>>

mainLocals == <<nodePub, firstP2wkhKey, firstSegwitAddr, firstNp2wkhKey,
                firstNestedSegwitAddr>>

----------------------------------------------------------------------------
(* Bounds of the model.                                                    *)

\* entropy contents are 1..MaxSeed
MaxSeed == 2
\* entropy lengths tried by the run harness: EntropySize -+ LenSlack
LenSlack == 1
\* deriveFirstKey invocations made by the driver
MaxCalls == 3
\* birthdays (days since genesis) and internal versions returned by the cipher seed
MaxBirthday == 1
MaxVersion == 1

----------------------------------------------------------------------------
(* uint32 arithmetic.  A uint32 v is [hi, lo] with v = hi * 2^31 + lo, so  *)
(* that the top bit (the hardened bit) and wrap-around at 2^32 are exact.  *)

Max31 == 2147483647

U32(n) == [hi |-> 0, lo |-> n]

U32Hi(n) == [hi |-> 1, lo |-> n]

\* a + b in uint32: wraps modulo 2^32
Add32(a, b) ==
    LET carry == IF a.lo > Max31 - b.lo THEN 1 ELSE 0
        lo    == IF carry = 1 THEN a.lo - (Max31 - b.lo) - 1 ELSE a.lo + b.lo
    IN  [hi |-> (a.hi + b.hi + carry) % 2, lo |-> lo]

\* hdkeychain.HardenedKeyStart = 0x80000000
HardenedKeyStart == U32Hi(0)

\* i >= HardenedKeyStart
IsHardened(i) == i.hi = 1

\* constants of keychain / waddrmgr used by main
BIP0043Purpose == 1017
KeyFamilyNodeKey == 6
CoinTypeBitcoin == 0
BIP0084Purpose == 84
BIP0049PlusPurpose == 49

----------------------------------------------------------------------------
(* hdkeychain.ExtendedKey                                                  *)

NilKey == [nil |-> TRUE, seed |-> 0, path |-> <<>>, isPrivate |-> FALSE, depth |-> 0]

NilPub == [nil |-> TRUE, seed |-> 0, path |-> <<>>]

NilAddr == [nil |-> TRUE, kind |-> "", netID |-> "",
            hash |-> [kind |-> "nil", len |-> 0, of |-> 0]]

EntropySize == 16

\* hdkeychain.NewMaster: the master node of a seed, private
NewMaster(e) ==
    IF e.len # EntropySize
    THEN [err |-> "InvalidSeedLength", key |-> NilKey]
    ELSE [err |-> "",
          key |-> [nil |-> FALSE, seed |-> e.val, path |-> <<>>,
                   isPrivate |-> TRUE, depth |-> 0]]

\* ExtendedKey.Neuter: the same node holding the public point only
Neuter(k) == [k EXCEPT !.isPrivate = FALSE]

\* ExtendedKey.Child(i)
Child(k, i) ==
    IF IsHardened(i) /\ ~k.isPrivate
    THEN [err |-> "HardenedFromPublicOnly", key |-> NilKey]
    ELSE IF <<k.seed, Append(k.path, i)>> \in badTweak
    THEN [err |-> "InvalidTweak", key |-> NilKey]
    ELSE [err |-> "",
          key |-> [nil |-> FALSE, seed |-> k.seed, path |-> Append(k.path, i),
                   isPrivate |-> k.isPrivate, depth |-> k.depth + 1]]

\* ExtendedKey.ECPubKey
ECPubKey(k) == [err |-> "", pub |-> [nil |-> FALSE, seed |-> k.seed, path |-> k.path]]

----------------------------------------------------------------------------
(* btcec / btcutil / txscript primitives used by the address builder.      *)

\* PublicKey.SerializeCompressed: the 33-byte compressed point
SerializeCompressed(pub) == [kind |-> "compressed", of |-> pub, len |-> 33]

\* hex.EncodeToString
HexEncodeToString(b) == [kind |-> "hex", of |-> b, len |-> 2 * b.len]

\* btcutil.Hash160: RIPEMD160(SHA256(b)), 20 bytes
Hash160(b) == [kind |-> "hash160", of |-> b, len |-> 20]

\* btcutil.NewAddressWitnessPubKeyHash(witnessProg, MainNetParams)
NewAddressWitnessPubKeyHash(witnessProg) ==
    IF witnessProg.len # 20
    THEN [err |-> "EncodingError", addr |-> NilAddr]
    ELSE [err |-> "",
          addr |-> [nil |-> FALSE, kind |-> "AddressWitnessPubKeyHash",
                    netID |-> "bc", witnessVersion |-> 0,
                    hash |-> witnessProg]]

\* btcutil.NewAddressScriptHashFromHash(scriptHash, MainNetParams)
NewAddressScriptHashFromHash(scriptHash) ==
    IF scriptHash.len # 20
    THEN [err |-> "EncodingError", addr |-> NilAddr]
    ELSE [err |-> "",
          addr |-> [nil |-> FALSE, kind |-> "AddressScriptHash",
                    netID |-> "ScriptHashAddrID", hash |-> scriptHash]]

\* btcutil.NewAddressScriptHash(serializedScript, MainNetParams)
NewAddressScriptHash(serializedScript) ==
    NewAddressScriptHashFromHash(Hash160(serializedScript))

\* txscript.PayToAddrScript: the pkScript paying to an address
PayToAddrScript(addr) ==
    IF addr.nil
    THEN [err |-> "ErrUnsupportedAddress", script |-> [kind |-> "script", ops |-> <<>>, len |-> 0]]
    ELSE IF addr.kind = "AddressWitnessPubKeyHash"
    THEN [err |-> "",
          script |-> [kind |-> "script",
                      ops |-> <<"OP_0", "OP_DATA_20", addr.hash>>,
                      len |-> 2 + addr.hash.len]]
    ELSE [err |-> "",
          script |-> [kind |-> "script",
                      ops |-> <<"OP_HASH160", "OP_DATA_20", addr.hash, "OP_EQUAL">>,
                      len |-> 3 + addr.hash.len]]

\* Address.String: bech32 for a witness address, base58check for a legacy one
AddrString(addr) ==
    IF addr.kind = "AddressWitnessPubKeyHash"
    THEN [enc |-> "bech32", hrp |-> addr.netID, version |-> addr.witnessVersion,
          payload |-> addr.hash]
    ELSE [enc |-> "base58check", hrp |-> addr.netID, version |-> 5,
          payload |-> addr.hash]

----------------------------------------------------------------------------
(* Address builder of src/main.go                                          *)

keyToP2wkhAddr(key) ==
    LET pubKeyHash == Hash160(SerializeCompressed(key))
    IN  NewAddressWitnessPubKeyHash(pubKeyHash)

\* variant: the pubkey hash itself is used as the script hash
keyToNp2wkhAddrDirect(key) ==
    NewAddressScriptHashFromHash(Hash160(SerializeCompressed(key)))

keyToNp2wkhAddr(key) ==
    LET pubKeyHash == Hash160(SerializeCompressed(key))
        wit        == NewAddressWitnessPubKeyHash(pubKeyHash)
        prog       == PayToAddrScript(wit.addr)
    IN  IF wit.err # "" THEN [err |-> wit.err, addr |-> NilAddr]
        ELSE IF prog.err # "" THEN [err |-> prog.err, addr |-> NilAddr]
        ELSE NewAddressScriptHash(prog.script)

----------------------------------------------------------------------------
(* Path deriver of src/main.go: deriveFirstKey and deriveAccountKey, one   *)
(* Child call per step.                                                    *)

NoErr == [msg |-> "", cause |-> ""]

IdleFrame ==
    [pc |-> "idle", rootKey |-> NilKey, purpose |-> U32(0), keyFamily |-> U32(0),
     purposeKey |-> NilKey, coinTypeKey |-> NilKey, accountKey |-> NilKey,
     externalBranch |-> NilKey, firstChild |-> NilKey,
     pub |-> NilPub, err |-> NoErr, base |-> 0]

\* the caller's side of a call deriveFirstKey(root, purpose, keyFamily)
CallFrame(root, purpose, keyFamily) ==
    [IdleFrame EXCEPT !.pc = "purposeKey", !.rootKey = root,
                      !.purpose = purpose, !.keyFamily = keyFamily,
                      !.base = Len(calls)]

\* variant: the hardened offset is left out
HardenedIndexPlain(n) == n

\* the index of the hardened child number n
HardenedIndex(n) == Add32(n, HardenedKeyStart)

\* variant: the step derives from the key the last Child call returned, kept
\* across invocations, instead of from its own parent
ChildStepStale(parent, i, wrap, field, nextpc) ==
    LET p == IF calls # <<>> /\ calls[Len(calls)].err = ""
             THEN calls[Len(calls)].child ELSE parent
        r == Child(p, i)
    IN  /\ calls' = Append(calls, [parent |-> p, index |-> i,
                                   err |-> r.err, child |-> r.key])
        /\ fr' = IF r.err # ""
                 THEN [fr EXCEPT !.pc = "ret",
                                 !.err = [msg |-> wrap, cause |-> r.err]]
                 ELSE [fr EXCEPT !.pc = nextpc, ![field] = r.key]

\* one parent.Child(i) whose result is stored in the local `field`, or whose
\* error ends the invocation with (nil, err)
ChildStep(parent, i, wrap, field, nextpc) ==
    LET r == Child(parent, i)
    IN  /\ calls' = Append(calls, [parent |-> parent, index |-> i,
                                   err |-> r.err, child |-> r.key])
        /\ fr' = IF r.err # ""
                 THEN [fr EXCEPT !.pc = "ret",
                                 !.err = [msg |-> wrap, cause |-> r.err]]
                 ELSE [fr EXCEPT !.pc = nextpc, ![field] = r.key]

\* variant: the purpose key is written over the caller's root key
DerivePurposeKeyAliased ==
    /\ fr.pc = "purposeKey"
    /\ ChildStep(fr.rootKey, HardenedIndex(fr.purpose),
                 "unable to derive purpose key", "purposeKey", "coinTypeKey")
    /\ rootKey' = IF fr'.pc = "ret" THEN rootKey ELSE fr'.purposeKey
    /\ UNCHANGED <<pc, mnemonicPhrase, cipherSeed, out, fatal, entropy,
                   mainLocals, hist, badTweak>>

\* deriveAccountKey: purposeKey, err := rootKey.Child(purpose + HardenedKeyStart)
DerivePurposeKey ==
    /\ fr.pc = "purposeKey"
    /\ ChildStep(fr.rootKey, HardenedIndex(fr.purpose),
                 "unable to derive purpose key", "purposeKey", "coinTypeKey")
    /\ UNCHANGED <<pc, mnemonicPhrase, cipherSeed, out, fatal, entropy, rootKey,
                   mainLocals, hist, badTweak>>

\* variant: the coin type is derived as a plain child
DeriveCoinTypeKeyPlain ==
    /\ fr.pc = "coinTypeKey"
    /\ ChildStep(fr.purposeKey, U32(CoinTypeBitcoin),
                 "unable to generate coin type key", "coinTypeKey", "accountKey")
    /\ UNCHANGED <<pc, mnemonicPhrase, cipherSeed, out, fatal, entropy, rootKey,
                   mainLocals, hist, badTweak>>

\* deriveAccountKey: coinTypeKey, err := purposeKey.Child(CoinTypeBitcoin + HardenedKeyStart)
DeriveCoinTypeKey ==
    /\ fr.pc = "coinTypeKey"
    /\ ChildStep(fr.purposeKey, HardenedIndex(U32(CoinTypeBitcoin)),
                 "unable to generate coin type key", "coinTypeKey", "accountKey")
    /\ UNCHANGED <<pc, mnemonicPhrase, cipherSeed, out, fatal, entropy, rootKey,
                   mainLocals, hist, badTweak>>

\* deriveAccountKey: accountKey, err := coinTypeKey.Child(uint32(keyFamily) + HardenedKeyStart)
DeriveAccountKey ==
    /\ fr.pc = "accountKey"
    /\ ChildStep(fr.coinTypeKey, HardenedIndex(fr.keyFamily),
                 "unable to derive account key", "accountKey", "externalBranch")
    /\ UNCHANGED <<pc, mnemonicPhrase, cipherSeed, out, fatal, entropy, rootKey,
                   mainLocals, hist, badTweak>>

\* deriveFirstKey: externalBranch, err := accountKey.Child(0)
DeriveExternalBranch ==
    /\ fr.pc = "externalBranch"
    /\ ChildStep(fr.accountKey, U32(0), "", "externalBranch", "firstChild")
    /\ UNCHANGED <<pc, mnemonicPhrase, cipherSeed, out, fatal, entropy, rootKey,
                   mainLocals, hist, badTweak>>

\* variant: the leaf is derived from the account key, not from the branch
DeriveFirstChildFromAccount ==
    /\ fr.pc = "firstChild"
    /\ ChildStep(fr.accountKey, U32(0), "", "firstChild", "ECPubKey")
    /\ UNCHANGED <<pc, mnemonicPhrase, cipherSeed, out, fatal, entropy, rootKey,
                   mainLocals, hist, badTweak>>

\* deriveFirstKey: firstChild, err := externalBranch.Child(0)
DeriveFirstChild ==
    /\ fr.pc = "firstChild"
    /\ ChildStep(fr.externalBranch, U32(0), "", "firstChild", "ECPubKey")
    /\ UNCHANGED <<pc, mnemonicPhrase, cipherSeed, out, fatal, entropy, rootKey,
                   mainLocals, hist, badTweak>>

\* deriveFirstKey: return firstChild.ECPubKey()
DeriveECPubKey ==
    /\ fr.pc = "ECPubKey"
    /\ LET r == ECPubKey(fr.firstChild)
       IN  fr' = [fr EXCEPT !.pc = "ret", !.pub = r.pub,
                            !.err = IF r.err = "" THEN NoErr
                                    ELSE [msg |-> "", cause |-> r.err]]
    /\ UNCHANGED <<pc, mnemonicPhrase, cipherSeed, out, fatal, entropy, rootKey,
                   mainLocals, calls, hist, badTweak>>

Derive ==
    \/ DerivePurposeKey
    \/ DeriveCoinTypeKey
    \/ DeriveAccountKey
    \/ DeriveExternalBranch
    \/ DeriveFirstChild
    \/ DeriveECPubKey

----------------------------------------------------------------------------
(* main of src/main.go                                                     *)

NummnemonicWords == 24

\* word counts of the -mnemonic flag; 0 stands for the flag left empty
WordCounts == {0, NummnemonicWords - 1, NummnemonicWords}

NilSeed == [nil |-> TRUE, entropy |-> [len |-> 0, val |-> 0], birthday |-> 0,
            internalVersion |-> 0]

\* what aezeed's ToCipherSeed can return on success
CipherSeeds ==
    { [nil |-> FALSE, entropy |-> [len |-> EntropySize, val |-> v],
       birthday |-> b, internalVersion |-> iv] :
        v \in 1..MaxSeed, b \in 0..MaxBirthday, iv \in 0..MaxVersion }

\* CipherSeed.BirthdayTime: the genesis date plus `birthday` days
BirthdayTime(cs) == [kind |-> "time", genesisPlusDays |-> cs.birthday]

Line(label, text) == [label |-> label, text |-> text]

\* log.Fatalf: the message goes to the log and the process exits with status 1
Fatalf(msg, cause) ==
    /\ fatal' = [msg |-> msg, cause |-> cause]
    /\ pc' = "exit"

\* lines 113-125
MainParseFlags ==
    /\ pc = "start"
    /\ \E n \in WordCounts :
        /\ mnemonicPhrase' = n
        /\ IF n = 0
           THEN pc' = "done" /\ fatal' = fatal
           ELSE IF n # NummnemonicWords
           THEN Fatalf("expected 24 words", n)
           ELSE pc' = "toCipherSeed" /\ fatal' = fatal
    /\ UNCHANGED <<cipherSeed, out, entropy, rootKey, mainLocals, fr, calls,
                   hist, badTweak>>

\* lines 127-138
MainToCipherSeed ==
    /\ pc = "toCipherSeed"
    /\ \E r \in CipherSeeds \cup {NilSeed} :
        /\ cipherSeed' = r
        /\ IF r.nil
           THEN Fatalf("unable to decrypt cipher seed", "ErrIncorrectMnemonic")
           ELSE pc' = "printBirthday" /\ fatal' = fatal
    /\ UNCHANGED <<mnemonicPhrase, out, entropy, rootKey, mainLocals, fr, calls,
                   hist, badTweak>>

\* lines 140-141
MainPrintBirthday ==
    /\ pc = "printBirthday"
    /\ out' = Append(out, Line("Wallet Birthday / Internal Version",
                               [birthday |-> BirthdayTime(cipherSeed),
                                version |-> cipherSeed.internalVersion]))
    /\ pc' = "newMaster"
    /\ UNCHANGED <<mnemonicPhrase, cipherSeed, fatal, entropy, rootKey,
                   mainLocals, fr, calls, hist, badTweak>>

\* variant: the error of NewMaster is not checked
MainNewMasterUnchecked ==
    /\ pc = "newMaster"
    /\ entropy' = cipherSeed.entropy
    /\ rootKey' = NewMaster(cipherSeed.entropy).key
    /\ pc' = "deriveNodeKey"
    /\ UNCHANGED <<mnemonicPhrase, cipherSeed, out, fatal, mainLocals, fr,
                   calls, hist, badTweak>>

\* lines 143-150
MainNewMaster ==
    /\ pc = "newMaster"
    /\ entropy' = cipherSeed.entropy
    /\ LET r == NewMaster(cipherSeed.entropy)
       IN  /\ rootKey' = r.key
           /\ IF r.err # ""
              THEN Fatalf("unable to make HD priv root", r.err)
              ELSE pc' = "deriveNodeKey" /\ fatal' = fatal
    /\ UNCHANGED <<mnemonicPhrase, cipherSeed, out, mainLocals, fr, calls,
                   hist, badTweak>>

\* main calls deriveFirstKey(rootKey, purpose, keyFamily)
MainCall(at, purpose, keyFamily, retpc) ==
    /\ pc = at
    /\ fr' = CallFrame(rootKey, U32(purpose), U32(keyFamily))
    /\ pc' = retpc
    /\ UNCHANGED <<mnemonicPhrase, cipherSeed, out, fatal, entropy, rootKey,
                   mainLocals, calls, hist, badTweak>>

\* lines 152-154
MainDeriveNodeKey ==
    MainCall("deriveNodeKey", BIP0043Purpose, KeyFamilyNodeKey, "nodeKeyRet")

\* lines 152-157: nodePub, err := ...; if err != nil { log.Fatalf }
MainNodeKeyRet ==
    /\ pc = "nodeKeyRet"
    /\ fr.pc = "ret"
    /\ nodePub' = fr.pub
    /\ fr' = IdleFrame
    /\ IF fr.err # NoErr
       THEN Fatalf("unable to derive node key", fr.err)
       ELSE pc' = "deriveP2wkhKey" /\ fatal' = fatal
    /\ UNCHANGED <<mnemonicPhrase, cipherSeed, out, entropy, rootKey,
                   firstP2wkhKey, firstSegwitAddr, firstNp2wkhKey,
                   firstNestedSegwitAddr, calls, hist, badTweak>>

\* lines 159-161
MainDeriveP2wkhKey ==
    MainCall("deriveP2wkhKey", BIP0084Purpose, 0, "p2wkhKeyRet")

\* lines 159-164
MainP2wkhKeyRet ==
    /\ pc = "p2wkhKeyRet"
    /\ fr.pc = "ret"
    /\ firstP2wkhKey' = fr.pub
    /\ fr' = IdleFrame
    /\ IF fr.err # NoErr
       THEN Fatalf("unable to derive first segwit addr", fr.err)
       ELSE pc' = "p2wkhAddr" /\ fatal' = fatal
    /\ UNCHANGED <<mnemonicPhrase, cipherSeed, out, entropy, rootKey,
                   nodePub, firstSegwitAddr, firstNp2wkhKey,
                   firstNestedSegwitAddr, calls, hist, badTweak>>

\* lines 165-168
MainKeyToP2wkhAddr ==
    /\ pc = "p2wkhAddr"
    /\ LET r == keyToP2wkhAddr(firstP2wkhKey)
       IN  /\ firstSegwitAddr' = r.addr
           /\ IF r.err # ""
              THEN Fatalf("unable to create p2wkh addr", r.err)
              ELSE pc' = "deriveNp2wkhKey" /\ fatal' = fatal
    /\ UNCHANGED <<mnemonicPhrase, cipherSeed, out, entropy, rootKey,
                   nodePub, firstP2wkhKey, firstNp2wkhKey,
                   firstNestedSegwitAddr, fr, calls, hist, badTweak>>

\* lines 170-172
MainDeriveNp2wkhKey ==
    MainCall("deriveNp2wkhKey", BIP0049PlusPurpose, 0, "np2wkhKeyRet")

\* variant: the error of the third derivation is not checked
MainNp2wkhKeyRetUnchecked ==
    /\ pc = "np2wkhKeyRet"
    /\ fr.pc = "ret"
    /\ firstNp2wkhKey' = fr.pub
    /\ fr' = IdleFrame
    /\ pc' = "np2wkhAddr"
    /\ UNCHANGED <<mnemonicPhrase, cipherSeed, out, fatal, entropy, rootKey,
                   nodePub, firstP2wkhKey, firstSegwitAddr,
                   firstNestedSegwitAddr, calls, hist, badTweak>>

\* lines 170-175
MainNp2wkhKeyRet ==
    /\ pc = "np2wkhKeyRet"
    /\ fr.pc = "ret"
    /\ firstNp2wkhKey' = fr.pub
    /\ fr' = IdleFrame
    /\ IF fr.err # NoErr
       THEN Fatalf("unable to derive first nested segwit addr", fr.err)
       ELSE pc' = "np2wkhAddr" /\ fatal' = fatal
    /\ UNCHANGED <<mnemonicPhrase, cipherSeed, out, entropy, rootKey,
                   nodePub, firstP2wkhKey, firstSegwitAddr,
                   firstNestedSegwitAddr, calls, hist, badTweak>>

\* lines 176-179
MainKeyToNp2wkhAddr ==
    /\ pc = "np2wkhAddr"
    /\ LET r == keyToNp2wkhAddr(firstNp2wkhKey)
       IN  /\ firstNestedSegwitAddr' = r.addr
           /\ IF r.err # ""
              THEN Fatalf("unable to create np2wkh addr", r.err)
              ELSE pc' = "printNodePub" /\ fatal' = fatal
    /\ UNCHANGED <<mnemonicPhrase, cipherSeed, out, entropy, rootKey,
                   nodePub, firstP2wkhKey, firstSegwitAddr, firstNp2wkhKey,
                   fr, calls, hist, badTweak>>

\* main writes one more line and moves on
MainPrint(at, line, nextpc) ==
    /\ pc = at
    /\ out' = Append(out, line)
    /\ pc' = nextpc
    /\ UNCHANGED <<mnemonicPhrase, cipherSeed, fatal, entropy, rootKey,
                   mainLocals, fr, calls, hist, badTweak>>

\* variant: the first address is written where the node key belongs
MainPrintNodePubSwapped ==
    MainPrint("printNodePub",
              Line("First p2wkh address", AddrString(firstSegwitAddr)),
              "printP2wkh")

\* line 181
MainPrintNodePub ==
    MainPrint("printNodePub",
              Line("Node pub key",
                   HexEncodeToString(SerializeCompressed(nodePub))),
              "printP2wkh")

\* line 183
MainPrintP2wkh ==
    MainPrint("printP2wkh",
              Line("First p2wkh address", AddrString(firstSegwitAddr)),
              "printNp2wkh")

\* line 184
MainPrintNp2wkh ==
    MainPrint("printNp2wkh",
              Line("First n2pwkh address", AddrString(firstNestedSegwitAddr)),
              "done")

\* everything main does from line 140 on
Run ==
    \/ MainPrintBirthday
    \/ MainNewMaster
    \/ MainDeriveNodeKey
    \/ MainNodeKeyRet
    \/ MainDeriveP2wkhKey
    \/ MainP2wkhKeyRet
    \/ MainKeyToP2wkhAddr
    \/ MainDeriveNp2wkhKey
    \/ MainNp2wkhKeyRet
    \/ MainKeyToNp2wkhAddr
    \/ MainPrintNodePub
    \/ MainPrintP2wkh
    \/ MainPrintNp2wkh

----------------------------------------------------------------------------
(* The HMAC tweaks that are invalid: none, or one node of one of the paths *)
(* main walks.                                                             *)

AccountPath(purpose, keyFamily) ==
    <<HardenedIndex(purpose), HardenedIndex(U32(CoinTypeBitcoin)),
      HardenedIndex(keyFamily)>>

LeafPath(purpose, keyFamily) ==
    AccountPath(purpose, keyFamily) \o <<U32(0), U32(0)>>

Prefixes(p) == { SubSeq(p, 1, n) : n \in 1..Len(p) }

MainArgs == { <<U32(BIP0043Purpose), U32(KeyFamilyNodeKey)>>,
              <<U32(BIP0084Purpose), U32(0)>>,
              <<U32(BIP0049PlusPurpose), U32(0)>> }

BadTweaks(seeds, args) ==
    {{}} \cup { {<<s, p>>} : s \in seeds,
                p \in UNION { Prefixes(LeafPath(a[1], a[2])) : a \in args } }

----------------------------------------------------------------------------
(* Spec: one run of the program.                                           *)

InitCommon ==
    /\ mnemonicPhrase = 0
    /\ out = <<>>
    /\ fatal = [msg |-> "", cause |-> ""]
    /\ entropy = [len |-> 0, val |-> 0]
    /\ nodePub = NilPub
    /\ firstP2wkhKey = NilPub
    /\ firstSegwitAddr = NilAddr
    /\ firstNp2wkhKey = NilPub
    /\ firstNestedSegwitAddr = NilAddr
    /\ fr = IdleFrame
    /\ calls = <<>>
    /\ hist = <<>>

Init ==
    /\ InitCommon
    /\ pc = "start"
    /\ cipherSeed = NilSeed
    /\ rootKey = NilKey
    /\ badTweak \in BadTweaks(1..MaxSeed, MainArgs)

Next ==
    \/ MainParseFlags
    \/ MainToCipherSeed
    \/ Run
    \/ Derive

Spec == Init /\ [][Next]_vars

----------------------------------------------------------------------------
(* SpecRun: the run of main from line 140 on, for an entropy buffer of any  *)
(* length near EntropySize.                                                *)

RunSeeds ==
    { [nil |-> FALSE, entropy |-> [len |-> n, val |-> v],
       birthday |-> b, internalVersion |-> iv] :
        n \in (EntropySize - LenSlack)..(EntropySize + LenSlack),
        v \in 1..MaxSeed, b \in 0..MaxBirthday, iv \in 0..MaxVersion }

InitRun ==
    /\ InitCommon
    /\ pc = "printBirthday"
    /\ cipherSeed \in RunSeeds
    /\ rootKey = NilKey
    /\ badTweak \in BadTweaks({cipherSeed.entropy.val}, MainArgs)

NextRun ==
    \/ Run
    \/ Derive

SpecRun == InitRun /\ [][NextRun]_vars

----------------------------------------------------------------------------
(* SpecFn: deriveFirstKey and the address builder applied by a driver to   *)
(* any root (private or public-only) and any purpose / key family.         *)

Purposes == {U32(BIP0084Purpose), U32(BIP0043Purpose), U32Hi(BIP0084Purpose)}

KeyFamilies == {U32(0), U32Hi(0)}

FnArgs == Purposes \X KeyFamilies

MasterOf(v) == NewMaster([len |-> EntropySize, val |-> v]).key

InitFn ==
    /\ InitCommon
    /\ pc = "driver"
    /\ cipherSeed = NilSeed
    /\ \E v \in {1, MaxSeed} :
        /\ rootKey \in {MasterOf(v), Neuter(MasterOf(v))}
        /\ badTweak \in BadTweaks({v}, FnArgs)

\* pub, err := deriveFirstKey(rootKey, purpose, keyFamily)
FnCall ==
    /\ pc = "driver"
    /\ Len(hist) < MaxCalls
    /\ \E a \in FnArgs : fr' = CallFrame(rootKey, a[1], a[2])
    /\ pc' = "driverRet"
    /\ UNCHANGED <<mnemonicPhrase, cipherSeed, out, fatal, entropy, rootKey,
                   mainLocals, calls, hist, badTweak>>

\* the invocation has returned: its outcome is recorded, and a returned key
\* is handed to the two address builders
FnReturn ==
    /\ pc = "driverRet"
    /\ fr.pc = "ret"
    /\ hist' = Append(hist,
                 [rootKey |-> fr.rootKey, purpose |-> fr.purpose,
                  keyFamily |-> fr.keyFamily, pub |-> fr.pub, err |-> fr.err,
                  trace |-> SubSeq(calls, fr.base + 1, Len(calls)),
                  p2wkh |-> IF fr.err = NoErr THEN keyToP2wkhAddr(fr.pub)
                            ELSE [err |-> "", addr |-> NilAddr],
                  np2wkh |-> IF fr.err = NoErr THEN keyToNp2wkhAddr(fr.pub)
                             ELSE [err |-> "", addr |-> NilAddr]])
    /\ fr' = IdleFrame
    /\ pc' = "driver"
    /\ UNCHANGED <<mnemonicPhrase, cipherSeed, out, fatal, entropy, rootKey,
                   mainLocals, calls, badTweak>>

NextFn ==
    \/ FnCall
    \/ FnReturn
    \/ Derive

SpecFn == InitFn /\ [][NextFn]_vars

----------------------------------------------------------------------------
(* Properties of main (Spec, SpecRun).                                     *)

Labels == <<"Wallet Birthday / Internal Version", "Node pub key",
            "First p2wkh address", "First n2pwkh address">>

Printed(label) == \E n \in 1..Len(out) : out[n].label = label

Terminated == pc \in {"done", "exit"}

\* C1: a run that ends in a failure has written no line of the report.
C1_NoPartialReport == pc = "exit" => out = <<>>

\* C2: out is always the first lines of the report in their fixed order, and a
\* run in which every step succeeded ends with exactly the four lines, the
\* first carrying the cipher seed's birthday time and internal version, the
\* others the node key in hex and the two addresses.
C2_ReportOrder ==
    /\ Len(out) <= 4
    /\ \A n \in 1..Len(out) : out[n].label = Labels[n]
    /\ (pc = "done" /\ ~cipherSeed.nil) =>
        /\ Len(out) = 4
        /\ out[1].text = [birthday |-> BirthdayTime(cipherSeed),
                          version |-> cipherSeed.internalVersion]
        /\ out[2].text = HexEncodeToString(SerializeCompressed(nodePub))
        /\ out[3].text = AddrString(firstSegwitAddr)
        /\ out[4].text = AddrString(firstNestedSegwitAddr)

C2_Witness == pc = "done" /\ ~cipherSeed.nil /\ Len(out) = 4

\* C7: when the entropy buffer is not EntropySize bytes long, NewMaster fails
\* with InvalidSeedLength, the run ends there, and no Child call is ever made
\* and no key or address ever computed.
C7_BadSeedLength ==
    cipherSeed.entropy.len # EntropySize =>
        /\ calls = <<>>
        /\ fr = IdleFrame
        /\ rootKey.nil
        /\ nodePub.nil /\ firstP2wkhKey.nil /\ firstNp2wkhKey.nil
        /\ firstSegwitAddr.nil /\ firstNestedSegwitAddr.nil
        /\ pc \in {"printBirthday", "newMaster", "exit"}
        /\ pc = "exit" =>
            fatal = [msg |-> "unable to make HD priv root",
                     cause |-> "InvalidSeedLength"]

C7_Witness ==
    /\ pc = "exit"
    /\ entropy.len = EntropySize - 1
    /\ fatal.cause = "InvalidSeedLength"

\* C10: the "Node pub key" line is written only after the three derivations
\* and the two address encodings have succeeded, and a finished run has
\* written all three key/address lines or none of them.
C10_AllOrNothing ==
    /\ Printed(Labels[2]) =>
        /\ ~nodePub.nil /\ ~firstP2wkhKey.nil /\ ~firstNp2wkhKey.nil
        /\ ~firstSegwitAddr.nil /\ ~firstNestedSegwitAddr.nil
        /\ fatal.msg = ""
    /\ Terminated =>
        /\ Printed(Labels[2]) <=> Printed(Labels[3])
        /\ Printed(Labels[3]) <=> Printed(Labels[4])

\* a run that failed in the last derivation, after two keys and one address
\* had been computed
C10_Witness ==
    /\ pc = "exit"
    /\ ~nodePub.nil /\ ~firstSegwitAddr.nil
    /\ fatal.msg = "unable to derive first nested segwit addr"
    /\ ~Printed(Labels[2])

----------------------------------------------------------------------------
(* Properties of deriveFirstKey and of the address builder (SpecFn).       *)

Invocations == { hist[n] : n \in 1..Len(hist) }

\* a purpose or key family that is a child number, i.e. below 2^31
IsChildNumber(n) == n.hi = 0

\* the n-th Child call of invocation h has the index the path prescribes
StepIndexOk(h, n) ==
    LET i == h.trace[n].index
    IN  CASE n = 1 -> IsHardened(i) /\ U32(i.lo) = h.purpose
          [] n = 2 -> IsHardened(i) /\ i.lo = CoinTypeBitcoin
          [] n = 3 -> IsHardened(i) /\ U32(i.lo) = h.keyFamily
          [] OTHER -> i = U32(0)

WalkOk(h) ==
    /\ Len(h.trace) <= 5
    /\ \A n \in 1..Len(h.trace) : StepIndexOk(h, n)
    /\ h.err = NoErr =>
        /\ Len(h.trace) = 5
        /\ h.trace[5].child.depth = h.rootKey.depth + 5
        /\ h.pub = ECPubKey(h.trace[5].child).pub
    /\ h.err # NoErr =>
        /\ Len(h.trace) >= 1
        /\ h.trace[Len(h.trace)].err # ""

\* C3 as stated: for every purpose and key family the walk is purpose',
\* coin type', key family', 0, 0.
C3_EveryPurpose == \A h \in Invocations : WalkOk(h)

\* C3: for every purpose and key family below 2^31, the Child calls of an
\* invocation are the first steps of purpose', coin type', key family', 0, 0
\* (three hardened, two not), all five of them when a key is returned, and
\* the returned key is at the root's depth + 5.
C3_Path ==
    \A h \in Invocations :
        IsChildNumber(h.purpose) /\ IsChildNumber(h.keyFamily) => WalkOk(h)

C3_Witness ==
    \E h \in Invocations :
        /\ IsChildNumber(h.purpose) /\ IsChildNumber(h.keyFamily)
        /\ h.err = NoErr
        /\ Len(h.trace) = 5

\* C4: every Child call with a hardened index on a public-only parent fails
\* with HardenedFromPublicOnly and returns no node, and an invocation on a
\* public-only root returns an error, having produced neither an account key
\* nor a public key.
C4_HardenedNeedsPrivate ==
    /\ \A n \in 1..Len(calls) :
        (IsHardened(calls[n].index) /\ ~calls[n].parent.isPrivate) =>
            calls[n].err = "HardenedFromPublicOnly" /\ calls[n].child.nil
    /\ (fr.pc # "idle" /\ ~fr.rootKey.isPrivate) =>
        fr.accountKey.nil /\ fr.pub.nil
    /\ \A h \in Invocations :
        ~h.rootKey.isPrivate =>
            /\ h.err # NoErr
            /\ h.pub.nil
            /\ Len(h.trace) <= 2

\* a public-only root whose first, wrapped-around step succeeded and whose
\* coin-type step was refused
C4_Witness ==
    \E h \in Invocations :
        /\ ~h.rootKey.isPrivate
        /\ Len(h.trace) = 2
        /\ h.trace[1].err = ""
        /\ h.trace[2].err = "HardenedFromPublicOnly"

\* C5: the key an invocation returns is the key at its own path below the
\* shared root, whatever was derived before it, and the shared root is the
\* same for every invocation and after it.
C5_OwnPathOnly ==
    \A n \in 1..Len(hist) :
        /\ hist[n].rootKey = hist[1].rootKey
        /\ rootKey = hist[1].rootKey
        /\ hist[n].err = NoErr =>
            hist[n].pub =
                [nil |-> FALSE, seed |-> rootKey.seed,
                 path |-> rootKey.path \o
                          LeafPath(hist[n].purpose, hist[n].keyFamily)]

\* two keys returned for different paths, one after the other
C5_Witness ==
    /\ Len(hist) >= 2
    /\ hist[1].err = NoErr /\ hist[2].err = NoErr
    /\ hist[1].purpose # hist[2].purpose

\* the address spec section 8 composes for the wrapped witness address
NativeWitnessProgram(pub) ==
    [version |-> 0, program |-> Hash160(SerializeCompressed(pub))]

SerializeAsScript(wp) ==
    [kind |-> "script", ops |-> <<"OP_0", "OP_DATA_20", wp.program>>,
     len |-> 2 + wp.program.len]

LegacyScriptHashEncode(h) ==
    [nil |-> FALSE, kind |-> "AddressScriptHash", netID |-> "ScriptHashAddrID",
     hash |-> h]

\* C6: keyToNp2wkhAddr(pub) is the script-hash address of hash160 of the
\* serialized version-0 witness program of hash160(pub), and is not the
\* script-hash address of hash160(pub) itself.
C6_WrappedComposition ==
    \A h \in Invocations :
        h.err = NoErr =>
            /\ h.np2wkh.err = ""
            /\ h.np2wkh.addr =
                LegacyScriptHashEncode(
                    Hash160(SerializeAsScript(NativeWitnessProgram(h.pub))))
            /\ h.np2wkh.addr #
                LegacyScriptHashEncode(Hash160(SerializeCompressed(h.pub)))
            /\ h.np2wkh.addr.hash # h.p2wkh.addr.hash

C6_Witness ==
    \E h \in Invocations :
        h.err = NoErr /\ ~h.np2wkh.addr.nil /\ ~h.p2wkh.addr.nil

\* C8: two invocations with the same root, purpose and key family return the
\* same key or the same error, whatever ran before or between them.
C8_Deterministic ==
    \A g, h \in Invocations :
        (g.rootKey = h.rootKey /\ g.purpose = h.purpose
            /\ g.keyFamily = h.keyFamily) =>
            g.pub = h.pub /\ g.err = h.err

\* the same path derived twice from the same root, another one in between
C8_Witness ==
    /\ Len(hist) >= 3
    /\ hist[1].purpose = hist[3].purpose
    /\ hist[1].keyFamily = hist[3].keyFamily
    /\ hist[2].purpose # hist[1].purpose
    /\ hist[1].err = NoErr
    /\ hist[2].err = NoErr

\* the Child calls made so far by the invocation in progress
FrTrace == SubSeq(calls, fr.base + 1, Len(calls))

\* a walk from `root`: every call's parent is the key the previous call
\* returned, and no call follows a failed one
Chained(root, trace) ==
    \A n \in 1..Len(trace) :
        /\ trace[n].parent = (IF n = 1 THEN root ELSE trace[n - 1].child)
        /\ n > 1 => trace[n - 1].err = ""

\* C9: within an invocation every Child call takes as parent the key returned
\* by the call before it (the root for the first), no call is made after a
\* failed one, and a failure is returned as the invocation's error with no key.
C9_StrictSequence ==
    /\ fr.pc # "idle" => Chained(fr.rootKey, FrTrace)
    /\ \A h \in Invocations :
        /\ Chained(h.rootKey, h.trace)
        /\ \A n \in 1..Len(h.trace) :
            h.trace[n].err # "" =>
                /\ n = Len(h.trace)
                /\ h.err.cause = h.trace[n].err
                /\ h.pub.nil
        /\ h.err = NoErr => ~h.pub.nil

\* an invocation stopped by an invalid tweak at its fourth step
C9_Witness ==
    \E h \in Invocations :
        /\ Len(h.trace) = 4
        /\ h.trace[4].err = "InvalidTweak"
        /\ h.pub.nil

====
